---- MODULE Spec2Model ----
\* Compressor trees of parmys-plugin/core/compressor.cc: the dispatcher
\* implement_compressor_tree, the Wallace and the Dadda reducer, and the
\* finisher ranks_to_adder_chain.
\*
\* A pin (an npin_t pointer) is a natural number: 0 is the constant-zero pin,
\* 1..n are the pins of the input rank structure, and the k-th full or half
\* adder created drives the pins n+2k-1 (sum) and n+2k (carry).
\* Indices i are 0-based as in the source; TLA+ sequences are 1-based, so
\* ranks[i] of the source is ranks[i+1] here.
EXTENDS Integers, Sequences, FiniteSets, TLC

\* Bounds of the model: number of ranks and pins per rank of the input.
MaxRanks == 3
MaxHeight == 6

\* compressor_tree_type_e, plus a tag outside the enumeration.
TreeTypes == {"WALLACE", "DADDA", "OTHER"}

\* get_zero_pin(netlist)
ZeroPin == 0
\* an input pin slot of the ADD node that add_input_pin_to_node never filled
Unconnected == -1
\* values an out-of-bounds ranks[i].size() may yield
GarbageSizes == 0 .. (MaxHeight + 1)

Bit == {0, 1}

RECURSIVE SumSeq(_)
SumSeq(s) == IF s = <<>> THEN 0 ELSE s[1] + SumSeq(Tail(s))

RECURSIVE Pow2(_)
Pow2(k) == IF k = 0 THEN 1 ELSE 2 * Pow2(k - 1)

\* F(x), with x computed once before F is applied to it
Call(F(_), x) == CHOOSE r \in {F(v) : v \in {x}} : TRUE

MaxOf(S) == IF S = {} THEN 0 ELSE CHOOSE x \in S : \A y \in S : y <= x

Heights(rs) == [k \in 1 .. Len(rs) |-> Len(rs[k])]

MaxHeightOf(rs) == MaxOf({Len(rs[k]) : k \in 1 .. Len(rs)})

\* the caller's rank structure for a vector h of rank heights: the i-th
\* vector holds the pins of weight 2^i
RanksOf(h) ==
    [k \in 1 .. Len(h) |->
        [j \in 1 .. h[k] |-> SumSeq(SubSeq(h, 1, k - 1)) + j]]

InputShapes == UNION {[1 .. n -> 0 .. MaxHeight] : n \in 0 .. MaxRanks}

VARIABLES
    tree_type,                \* the strategy tag of the call
    input,                    \* the rank structure as the caller passed it
    pc,                       \* position of the call
    ranks,                    \* the reducer's copy of the rank structure
    temp,                     \* the new rows of the current stage
    i,                        \* index of the rank loop
    max_rank_size,
    cur_ranks_size,
    new_ranks_size,
    target_rank_size,         \* Wallace
    is_first_reducible_rank,  \* Wallace
    last_adder_count,         \* Wallace
    d,                        \* Dadda
    d_factors,                \* Dadda
    last_carry_count,         \* Dadda
    stage,                    \* number of reduction stages begun
    cells,                    \* the full and half adders created, in order
    add_node,                 \* the ADD node of the finisher
    add_list,                 \* ADD nodes registered in the global add_list
    makingAdderChain,         \* finisher
    adder_start_i,            \* finisher
    adder_input_size,         \* finisher
    ret,                      \* the returned signal list
    oob_read                  \* some ranks[i] was read with i >= ranks.size()

vars == <<tree_type, input, pc, ranks, temp, i, max_rank_size, cur_ranks_size,
          new_ranks_size, target_rank_size, is_first_reducible_rank,
          last_adder_count, d, d_factors, last_carry_count, stage, cells,
          add_node, add_list, makingAdderChain, adder_start_i,
          adder_input_size, ret, oob_read>>

NumInputs == SumSeq(Heights(input))

NoNode == [width |-> 0, pins |-> <<>>]

----
\* The basic cells.

\* LOGICAL_AND, LOGICAL_OR and LOGICAL_XOR nodes on 0/1 values
AND2(a, b) == IF a = 1 /\ b = 1 THEN 1 ELSE 0
OR3(a, b, c) == IF a = 1 \/ b = 1 \/ c = 1 THEN 1 ELSE 0
XOR2(a, b) == (a + b) % 2
XOR3(a, b, c) == (a + b + c) % 2

\* implement_FA: sum = a^b^c, carry = ab + ac + bc
FA_sum(a, b, c) == XOR3(a, b, c)
FA_carry(a, b, c) == OR3(AND2(a, b), AND2(a, c), AND2(b, c))

\* implement_HA: sum = a^b, carry = ab
HA_sum(a, b) == XOR2(a, b)
HA_carry(a, b) == AND2(a, b)

\* the cell implement_FA builds when cs cells exist already; n input pins
implement_FA(cs, n, a, b, c, rk, stg) ==
    [kind |-> "FA", ins |-> <<a, b, c>>,
     sum |-> n + 2 * Len(cs) + 1, carry |-> n + 2 * Len(cs) + 2,
     rank |-> rk, stage |-> stg]

implement_HA(cs, n, a, b, rk, stg) ==
    [kind |-> "HA", ins |-> <<a, b>>,
     sum |-> n + 2 * Len(cs) + 1, carry |-> n + 2 * Len(cs) + 2,
     rank |-> rk, stage |-> stg]

----
\* The locals of a reducer as one record, so that the loop bodies are
\* operators from records to records.

Locals ==
    [n |-> NumInputs, ranks |-> ranks, temp |-> temp, i |-> i,
     max_rank_size |-> max_rank_size, cur_ranks_size |-> cur_ranks_size,
     new_ranks_size |-> new_ranks_size,
     target_rank_size |-> target_rank_size,
     is_first_reducible_rank |-> is_first_reducible_rank,
     last_adder_count |-> last_adder_count,
     d |-> d, d_factors |-> d_factors, last_carry_count |-> last_carry_count,
     stage |-> stage, cells |-> cells, oob_read |-> oob_read,
     rank_size |-> 0, cur_adder_count |-> 0]

Store(s) ==
    /\ ranks' = s.ranks
    /\ temp' = s.temp
    /\ i' = s.i
    /\ max_rank_size' = s.max_rank_size
    /\ cur_ranks_size' = s.cur_ranks_size
    /\ new_ranks_size' = s.new_ranks_size
    /\ target_rank_size' = s.target_rank_size
    /\ is_first_reducible_rank' = s.is_first_reducible_rank
    /\ last_adder_count' = s.last_adder_count
    /\ d' = s.d
    /\ d_factors' = s.d_factors
    /\ last_carry_count' = s.last_carry_count
    /\ stage' = s.stage
    /\ cells' = s.cells
    /\ oob_read' = s.oob_read

\* Entry with the maximum one too large
EntryMaxOffByOne(rs) ==
    [n |-> SumSeq(Heights(rs)), ranks |-> rs, temp |-> <<>>, i |-> 0,
     max_rank_size |-> MaxHeightOf(rs) + 1, cur_ranks_size |-> Len(rs),
     new_ranks_size |-> 0, target_rank_size |-> 0,
     is_first_reducible_rank |-> TRUE, last_adder_count |-> 0,
     d |-> 2, d_factors |-> <<>>, last_carry_count |-> 0,
     stage |-> 0, cells |-> <<>>, oob_read |-> FALSE,
     rank_size |-> 0, cur_adder_count |-> 0]

\* the locals of a reducer called with rank structure rs
Entry(rs) ==
    [n |-> SumSeq(Heights(rs)), ranks |-> rs, temp |-> <<>>, i |-> 0,
     max_rank_size |-> MaxHeightOf(rs), cur_ranks_size |-> Len(rs),
     new_ranks_size |-> 0, target_rank_size |-> 0,
     is_first_reducible_rank |-> TRUE, last_adder_count |-> 0,
     d |-> 2, d_factors |-> <<>>, last_carry_count |-> 0,
     stage |-> 0, cells |-> <<>>, oob_read |-> FALSE,
     rank_size |-> 0, cur_adder_count |-> 0]

\* "make new row": temp.push_back of an empty row while new_ranks_size < k
NewRow(s, k) ==
    IF s.new_ranks_size < k
    THEN [s EXCEPT !.temp = Append(@, <<>>), !.new_ranks_size = @ + 1]
    ELSE s

\* TakeFA putting the sum back into ranks[i]
TakeFASumInPlace(s) ==
    LET r == s.ranks[s.i + 1]
        m == Len(r)
        cell == implement_FA(s.cells, s.n, r[m], r[m - 1], r[m - 2],
                             s.i, s.stage)
    IN [s EXCEPT !.ranks[s.i + 1] = Append(SubSeq(r, 1, m - 3), cell.sum),
                 !.temp[s.i + 2] = Append(@, cell.carry),
                 !.cells = Append(@, cell),
                 !.rank_size = @ - 3,
                 !.cur_adder_count = @ + 1]

\* a full adder on the last 3 pins of ranks[i]; sum to temp[i], carry to
\* temp[i+1]
TakeFA(s) ==
    LET r == s.ranks[s.i + 1]
        m == Len(r)
        cell == implement_FA(s.cells, s.n, r[m], r[m - 1], r[m - 2],
                             s.i, s.stage)
    IN [s EXCEPT !.ranks[s.i + 1] = SubSeq(r, 1, m - 3),
                 !.temp[s.i + 1] = Append(@, cell.sum),
                 !.temp[s.i + 2] = Append(@, cell.carry),
                 !.cells = Append(@, cell),
                 !.rank_size = @ - 3,
                 !.cur_adder_count = @ + 1]

\* TakeHA leaving the second pin in the rank
TakeHAKeepsSecond(s) ==
    LET r == s.ranks[s.i + 1]
        m == Len(r)
        cell == implement_HA(s.cells, s.n, r[m], r[m - 1], s.i, s.stage)
    IN [s EXCEPT !.ranks[s.i + 1] = SubSeq(r, 1, m - 2) \o <<r[m - 1]>>,
                 !.temp[s.i + 1] = Append(@, cell.sum),
                 !.temp[s.i + 2] = Append(@, cell.carry),
                 !.cells = Append(@, cell),
                 !.rank_size = @ - 2,
                 !.cur_adder_count = @ + 1]

\* a half adder on the last 2 pins of ranks[i]
TakeHA(s) ==
    LET r == s.ranks[s.i + 1]
        m == Len(r)
        cell == implement_HA(s.cells, s.n, r[m], r[m - 1], s.i, s.stage)
    IN [s EXCEPT !.ranks[s.i + 1] = SubSeq(r, 1, m - 2),
                 !.temp[s.i + 1] = Append(@, cell.sum),
                 !.temp[s.i + 2] = Append(@, cell.carry),
                 !.cells = Append(@, cell),
                 !.rank_size = @ - 2,
                 !.cur_adder_count = @ + 1]

----
\* implement_compressor_tree_wallace

\* "make as many FAs as possible"
RECURSIVE WallaceFAs(_)
WallaceFAs(s) ==
    IF s.rank_size >= 3
    THEN Call(WallaceFAs,
              [TakeFA(s) EXCEPT !.is_first_reducible_rank = FALSE])
    ELSE s

\* WallaceHACond without case (a)
WallaceHACondFirstOnly(s) ==
    /\ s.rank_size = 2
    /\ s.is_first_reducible_rank

\* WallaceHACond without the carries arriving from the rank below
WallaceHACondNoCarryIn(s) ==
    /\ s.rank_size = 2
    /\ \/ s.is_first_reducible_rank
       \/ s.cur_adder_count + s.rank_size > s.target_rank_size

\* "insert HA only if (a) target rows need to be met, or (b) first rank
\* with size >= 2"
WallaceHACond(s) ==
    /\ s.rank_size = 2
    /\ \/ s.is_first_reducible_rank
       \/ s.cur_adder_count + s.last_adder_count + s.rank_size
              > s.target_rank_size

WallaceHA(s) ==
    IF WallaceHACond(s)
    THEN [TakeHA(s) EXCEPT !.is_first_reducible_rank = FALSE]
    ELSE s

\* the body of "reduce current ranks" for rank i, and i++
WallaceReduceRank(s) ==
    LET s0 == [s EXCEPT !.cur_adder_count = 0,
                        !.rank_size = Len(s.ranks[s.i + 1])]
        s1 == NewRow(s0, s.i + 1)
    IN IF s1.rank_size < 2
       THEN [s1 EXCEPT !.last_adder_count = 0, !.i = @ + 1]
       ELSE LET s2 == Call(WallaceHA,
                           Call(WallaceFAs, NewRow(s1, s.i + 2)))
            IN [s2 EXCEPT !.last_adder_count = s2.cur_adder_count,
                          !.i = @ + 1]

\* the new maximum when rank i has been re-appended
CheckMax(s) ==
    IF Len(s.ranks[s.i + 1]) > s.max_rank_size
    THEN [s EXCEPT !.max_rank_size = Len(s.ranks[s.i + 1])]
    ELSE s

\* WallaceAppendRow with the size of the rank read before the insert
WallaceAppendRowSizeBeforeInsert(s) ==
    LET temp_rank == s.temp[s.i + 1]
        m == IF s.i < s.cur_ranks_size THEN CheckMax(s).max_rank_size
                                       ELSE s.max_rank_size
    IN IF Len(temp_rank) > 0
       THEN IF s.i < s.cur_ranks_size
            THEN [s EXCEPT !.ranks[s.i + 1] = @ \o temp_rank,
                           !.max_rank_size = m]
            ELSE [s EXCEPT !.ranks = Append(@, temp_rank),
                           !.max_rank_size = m]
       ELSE IF s.i >= s.cur_ranks_size
            THEN s
            ELSE CheckMax(s)

\* the body of "re-append all from temp" for row i, without the i++
WallaceAppendRow(s) ==
    LET temp_rank == s.temp[s.i + 1]
    IN IF Len(temp_rank) > 0
       THEN IF s.i < s.cur_ranks_size
            THEN CheckMax([s EXCEPT !.ranks[s.i + 1] = @ \o temp_rank])
            ELSE CheckMax([s EXCEPT !.ranks = Append(@, temp_rank)])
       ELSE IF s.i >= s.cur_ranks_size
            THEN s
            ELSE CheckMax(s)

RECURSIVE WallaceAppend(_)
WallaceAppend(s) ==
    IF s.i < s.new_ranks_size
    THEN Call(WallaceAppend, [WallaceAppendRow(s) EXCEPT !.i = @ + 1])
    ELSE s

\* the merge at the end of a stage: max_rank_size = 0, the loop, clear temp,
\* re-assign rank size
WallaceMergeRows(s) ==
    LET s1 == Call(WallaceAppend, [s EXCEPT !.max_rank_size = 0, !.i = 0])
    IN [s1 EXCEPT !.temp = <<>>, !.cur_ranks_size = Len(s1.ranks)]

\* the head of a stage: the tracker variables of the scope
WallaceStageHead(s) ==
    [s EXCEPT !.target_rank_size =
                  (s.max_rank_size \div 3) * 2 + (s.max_rank_size % 3),
              !.is_first_reducible_rank = TRUE,
              !.last_adder_count = 0,
              !.new_ranks_size = 0,
              !.i = 0,
              !.stage = @ + 1]

----
\* implement_compressor_tree_dadda

\* "get all d-factors": the values pushed while d < max_rank_size, from d on
RECURSIVE DaddaFactors(_, _)
DaddaFactors(dd, m) ==
    IF dd < m THEN <<dd>> \o DaddaFactors((dd * 3) \div 2, m) ELSE <<>>

\* the locals after the d-factors are computed and d is rolled back by one
DaddaEntry(rs) ==
    LET s == Entry(rs)
        f == DaddaFactors(2, s.max_rank_size)
    IN IF f # <<>>
       THEN [s EXCEPT !.d = f[Len(f)], !.d_factors = SubSeq(f, 1, Len(f) - 1)]
       ELSE [s EXCEPT !.d = 2, !.d_factors = <<>>]

\* "make as many FAs as possible"
RECURSIVE DaddaFAs(_)
DaddaFAs(s) ==
    IF /\ s.rank_size + s.last_carry_count + s.cur_adder_count > s.d + 1
       /\ s.rank_size >= 3
    THEN Call(DaddaFAs, TakeFA(s))
    ELSE s

\* DaddaHACond asking for 3 pins as the full adder does
DaddaHACondNeedsThree(s) ==
    /\ s.rank_size + s.last_carry_count + s.cur_adder_count = s.d + 1
    /\ s.rank_size >= 3

\* "insert HA if rank_size = d+1"
DaddaHACond(s) ==
    /\ s.rank_size + s.last_carry_count + s.cur_adder_count = s.d + 1
    /\ s.rank_size >= 2

DaddaHA(s) == IF DaddaHACond(s) THEN TakeHA(s) ELSE s

\* DaddaSkip passing through only below d
DaddaSkipBelowD(s) == s.rank_size + s.last_carry_count < s.d

\* "skip if there is no need to reduce"
DaddaSkip(s) == s.rank_size + s.last_carry_count <= s.d

\* what the skipped rank leaves in last_carry_count: the continue statement
\* does not assign it
DaddaSkipCarry(s) == s.last_carry_count

\* the body of "reduce current ranks" for rank i, and i++
DaddaReduceRank(s) ==
    LET s0 == [s EXCEPT !.cur_adder_count = 0,
                        !.rank_size = Len(s.ranks[s.i + 1])]
        s1 == NewRow(s0, s.i + 1)
    IN IF DaddaSkip(s1)
       THEN [s1 EXCEPT !.last_carry_count = DaddaSkipCarry(s1), !.i = @ + 1]
       ELSE LET s2 == Call(DaddaHA, Call(DaddaFAs, NewRow(s1, s.i + 2)))
            IN [s2 EXCEPT !.last_carry_count = s2.cur_adder_count,
                          !.i = @ + 1]

\* DaddaAppendRow with the size of the rank read before the insert
DaddaAppendRowSizeBeforeInsert(s, g) ==
    LET temp_rank == s.temp[s.i + 1]
        m == IF s.i < s.cur_ranks_size THEN CheckMax(s).max_rank_size
                                       ELSE s.max_rank_size
    IN IF Len(temp_rank) > 0
       THEN IF s.i < s.cur_ranks_size
            THEN [s EXCEPT !.ranks[s.i + 1] = @ \o temp_rank,
                           !.max_rank_size = m]
            ELSE [s EXCEPT !.ranks = Append(@, temp_rank),
                           !.max_rank_size = m]
       ELSE IF s.i < Len(s.ranks)
            THEN CheckMax(s)
            ELSE [s EXCEPT !.oob_read = TRUE,
                           !.max_rank_size = IF g > @ THEN g ELSE @]

\* the body of "re-append all from temp" for row i, without the i++.
\* ranks[i].size() is read for every row, also for a carry row that stayed
\* empty above the last rank: that read is out of bounds and yields g.
DaddaAppendRow(s, g) ==
    LET temp_rank == s.temp[s.i + 1]
        s1 == IF Len(temp_rank) > 0
              THEN IF s.i < s.cur_ranks_size
                   THEN [s EXCEPT !.ranks[s.i + 1] = @ \o temp_rank]
                   ELSE [s EXCEPT !.ranks = Append(@, temp_rank)]
              ELSE s
    IN IF s.i < Len(s1.ranks)
       THEN CheckMax(s1)
       ELSE [s1 EXCEPT !.oob_read = TRUE,
                       !.max_rank_size = IF g > @ THEN g ELSE @]

RECURSIVE DaddaAppend(_, _)
DaddaAppend(s, g) ==
    IF s.i < s.new_ranks_size
    THEN Call(LAMBDA v : DaddaAppend(v, g),
              [DaddaAppendRow(s, g) EXCEPT !.i = @ + 1])
    ELSE s

\* "reduce d if possible"
RECURSIVE DaddaNextD(_)
DaddaNextD(s) ==
    IF s.d_factors = <<>>
    THEN s
    ELSE LET nd == s.d_factors[Len(s.d_factors)]
             s1 == [s EXCEPT !.d = nd,
                             !.d_factors = SubSeq(@, 1, Len(@) - 1)]
         IN IF nd < s.max_rank_size THEN s1 ELSE Call(DaddaNextD, s1)

\* the merge at the end of a stage, and the next threshold
DaddaMergeRows(s, g) ==
    LET s1 == Call(LAMBDA v : DaddaAppend(v, g),
                   [s EXCEPT !.max_rank_size = 0, !.i = 0])
    IN Call(DaddaNextD,
            [s1 EXCEPT !.temp = <<>>, !.cur_ranks_size = Len(s1.ranks)])

\* the head of a stage
DaddaStageHead(s) ==
    [s EXCEPT !.new_ranks_size = 0,
              !.last_carry_count = 0,
              !.i = 0,
              !.stage = @ + 1]

----
\* ranks_to_adder_chain

\* an entry of the returned signal list: a pin taken from a rank (or the
\* zero pin), or the output pin idx of the ADD node
PinEntry(p) == [kind |-> "pin", idx |-> p]
AddEntry(k) == [kind |-> "add", idx |-> k]

ChainEntry(rs) ==
    [ranks |-> rs, i |-> 0, cur_ranks_size |-> Len(rs),
     makingAdderChain |-> FALSE, adder_start_i |-> -1,
     adder_input_size |-> 0, add_node |-> NoNode, add_list |-> 0,
     ret |-> <<>>]

\* ChainMakeAdder with one operand bit per rank of the structure
ChainMakeAdderFullWidth(c, rank_size) ==
    IF rank_size > 1 /\ ~c.makingAdderChain
    THEN LET w == c.cur_ranks_size
         IN [c EXCEPT !.makingAdderChain = TRUE,
                      !.adder_input_size = w,
                      !.add_node = [width |-> w,
                                    pins |-> [k \in 1 .. 2 * w |-> Unconnected]],
                      !.add_list = @ + 1,
                      !.adder_start_i = c.i]
    ELSE c

\* "Make the adder chain if not yet instantiated": make_2port_gate(ADD, ...)
ChainMakeAdder(c, rank_size) ==
    IF rank_size > 1 /\ ~c.makingAdderChain
    THEN LET w == c.cur_ranks_size - c.i
         IN [c EXCEPT !.makingAdderChain = TRUE,
                      !.adder_input_size = w,
                      !.add_node = [width |-> w,
                                    pins |-> [k \in 1 .. 2 * w |-> Unconnected]],
                      !.add_list = @ + 1,
                      !.adder_start_i = c.i]
    ELSE c

\* the pin a rank without pins puts into the signal list
ChainEmptyRank(c) == PinEntry(ZeroPin)

\* the body of the loop for rank i, and i++
ChainRank(c) ==
    LET r == c.ranks[c.i + 1]
        rank_size == Len(r)
        c1 == ChainMakeAdder(c, rank_size)
    IN IF rank_size > 0
       THEN IF c1.makingAdderChain
            THEN LET adder_idx == c1.i - c1.adder_start_i
                     second_input == IF rank_size > 1
                                     THEN r[rank_size - 1]
                                     ELSE ZeroPin
                 IN [c1 EXCEPT
                       !.add_node.pins[adder_idx + 1] = r[rank_size],
                       !.add_node.pins[c1.adder_input_size + adder_idx + 1] =
                           second_input,
                       !.ranks[c.i + 1] =
                           SubSeq(r, 1, rank_size
                                        - (IF rank_size > 1 THEN 2 ELSE 1)),
                       !.ret = Append(@, AddEntry(adder_idx)),
                       !.i = @ + 1]
            ELSE [c1 EXCEPT !.ranks[c.i + 1] = SubSeq(r, 1, rank_size - 1),
                            !.ret = Append(@, PinEntry(r[rank_size])),
                            !.i = @ + 1]
       ELSE [c1 EXCEPT !.ret = Append(@, ChainEmptyRank(c1)), !.i = @ + 1]

RECURSIVE ChainLoop(_)
ChainLoop(c) ==
    IF c.i < c.cur_ranks_size THEN Call(ChainLoop, ChainRank(c)) ELSE c

\* ranks_to_adder_chain without the last adder output
ranks_to_adder_chain_no_carry_out(rs) == Call(ChainLoop, ChainEntry(rs))

\* the whole function: the loop, then "add the last adder output of the
\* carry chain (if it exists)"
ranks_to_adder_chain(rs) ==
    Call(LAMBDA c : IF c.makingAdderChain
                    THEN [c EXCEPT
                            !.ret = Append(@, AddEntry(c.adder_input_size))]
                    ELSE c,
         Call(ChainLoop, ChainEntry(rs)))

----
\* The call implement_compressor_tree(tree_type, node, mark, netlist, ranks).

Init ==
    /\ tree_type \in TreeTypes
    /\ input \in {RanksOf(h) : h \in InputShapes}
    /\ pc = "call"
    /\ ranks = input
    /\ temp = <<>>
    /\ i = 0
    /\ max_rank_size = 0
    /\ cur_ranks_size = 0
    /\ new_ranks_size = 0
    /\ target_rank_size = 0
    /\ is_first_reducible_rank = TRUE
    /\ last_adder_count = 0
    /\ d = 2
    /\ d_factors = <<>>
    /\ last_carry_count = 0
    /\ stage = 0
    /\ cells = <<>>
    /\ add_node = NoNode
    /\ add_list = 0
    /\ makingAdderChain = FALSE
    /\ adder_start_i = -1
    /\ adder_input_size = 0
    /\ ret = <<>>
    /\ oob_read = FALSE

finisherVars == <<add_node, add_list, makingAdderChain, adder_start_i,
                  adder_input_size, ret>>

\* case WALLACE: the reducer is entered and computes the maximum rank size
CallWallace ==
    /\ pc = "call"
    /\ tree_type = "WALLACE"
    /\ \E s \in {Entry(ranks)} : Store(s)
    /\ pc' = "wallace"
    /\ UNCHANGED <<tree_type, input, finisherVars>>

\* case DADDA: the reducer is entered and computes the maximum rank size and
\* the d-factors
CallDadda ==
    /\ pc = "call"
    /\ tree_type = "DADDA"
    /\ \E s \in {DaddaEntry(ranks)} : Store(s)
    /\ pc' = "dadda"
    /\ UNCHANGED <<tree_type, input, finisherVars>>

\* CallUnrecognized falling through to the Dadda case
CallUnrecognizedFallsThrough ==
    /\ pc = "call"
    /\ tree_type \notin {"WALLACE", "DADDA"}
    /\ \E s \in {DaddaEntry(ranks)} : Store(s)
    /\ pc' = "dadda"
    /\ UNCHANGED <<tree_type, input, finisherVars>>

\* default: Yosys::log_error
CallUnrecognized ==
    /\ pc = "call"
    /\ tree_type \notin {"WALLACE", "DADDA"}
    /\ pc' = "fatal"
    /\ UNCHANGED <<tree_type, input, ranks, temp, i, max_rank_size,
                   cur_ranks_size, new_ranks_size, target_rank_size,
                   is_first_reducible_rank, last_adder_count, d, d_factors,
                   last_carry_count, stage, cells, oob_read, finisherVars>>

\* while (max_rank_size > 2): a stage begins
WallaceStage ==
    /\ pc = "wallace"
    /\ max_rank_size > 2
    /\ \E s \in {WallaceStageHead(Locals)} : Store(s)
    /\ pc' = "wallace_rank"
    /\ UNCHANGED <<tree_type, input, finisherVars>>

\* one iteration of "reduce current ranks"
WallaceRank ==
    /\ pc = "wallace_rank"
    /\ i < cur_ranks_size
    /\ \E s \in {WallaceReduceRank(Locals)} : Store(s)
    /\ pc' = "wallace_rank"
    /\ UNCHANGED <<tree_type, input, finisherVars>>

\* the end of the stage: merge, clear temp, re-assign rank size
WallaceMerge ==
    /\ pc = "wallace_rank"
    /\ i >= cur_ranks_size
    /\ \E s \in {WallaceMergeRows(Locals)} : Store(s)
    /\ pc' = "wallace"
    /\ UNCHANGED <<tree_type, input, finisherVars>>

\* the loop is left and ranks_to_adder_chain is called
WallaceReturn ==
    /\ pc = "wallace"
    /\ max_rank_size <= 2
    /\ pc' = "chain"
    /\ UNCHANGED <<tree_type, input, ranks, temp, i, max_rank_size,
                   cur_ranks_size, new_ranks_size, target_rank_size,
                   is_first_reducible_rank, last_adder_count, d, d_factors,
                   last_carry_count, stage, cells, oob_read, finisherVars>>

DaddaStage ==
    /\ pc = "dadda"
    /\ max_rank_size > 2
    /\ \E s \in {DaddaStageHead(Locals)} : Store(s)
    /\ pc' = "dadda_rank"
    /\ UNCHANGED <<tree_type, input, finisherVars>>

DaddaRank ==
    /\ pc = "dadda_rank"
    /\ i < cur_ranks_size
    /\ \E s \in {DaddaReduceRank(Locals)} : Store(s)
    /\ pc' = "dadda_rank"
    /\ UNCHANGED <<tree_type, input, finisherVars>>

DaddaMerge ==
    /\ pc = "dadda_rank"
    /\ i >= cur_ranks_size
    /\ \E g \in GarbageSizes : \E s \in {DaddaMergeRows(Locals, g)} : Store(s)
    /\ pc' = "dadda"
    /\ UNCHANGED <<tree_type, input, finisherVars>>

DaddaReturn ==
    /\ pc = "dadda"
    /\ max_rank_size <= 2
    /\ pc' = "chain"
    /\ UNCHANGED <<tree_type, input, ranks, temp, i, max_rank_size,
                   cur_ranks_size, new_ranks_size, target_rank_size,
                   is_first_reducible_rank, last_adder_count, d, d_factors,
                   last_carry_count, stage, cells, oob_read, finisherVars>>

\* ranks_to_adder_chain(node, mark, netlist, ranks) and the return
RanksToAdderChain ==
    /\ pc = "chain"
    /\ \E c \in {ranks_to_adder_chain(ranks)} :
          /\ ranks' = c.ranks
          /\ add_node' = c.add_node
          /\ add_list' = add_list + c.add_list
          /\ makingAdderChain' = c.makingAdderChain
          /\ adder_start_i' = c.adder_start_i
          /\ adder_input_size' = c.adder_input_size
          /\ ret' = c.ret
    /\ pc' = "done"
    /\ UNCHANGED <<tree_type, input, temp, i, max_rank_size, cur_ranks_size,
                   new_ranks_size, target_rank_size, is_first_reducible_rank,
                   last_adder_count, d, d_factors, last_carry_count, stage,
                   cells, oob_read>>

Next ==
    \/ CallWallace
    \/ CallDadda
    \/ CallUnrecognized
    \/ WallaceStage
    \/ WallaceRank
    \/ WallaceMerge
    \/ WallaceReturn
    \/ DaddaStage
    \/ DaddaRank
    \/ DaddaMerge
    \/ DaddaReturn
    \/ RanksToAdderChain

Spec == Init /\ [][Next]_vars

\* the call is single-threaded and synchronous: it runs until it returns or
\* aborts
FairSpec == Spec /\ WF_vars(Next)

----
\* The reducers as functions of the rank structure: the same stage head, rank
\* body and merge as the actions above, run to the end of the while loop.

RECURSIVE WallaceRanks(_)
WallaceRanks(s) ==
    IF s.i < s.cur_ranks_size
    THEN Call(WallaceRanks, WallaceReduceRank(s))
    ELSE s

RECURSIVE WallaceRun(_)
WallaceRun(s) ==
    IF s.max_rank_size > 2
    THEN Call(WallaceRun,
              Call(WallaceMergeRows,
                   Call(WallaceRanks, WallaceStageHead(s))))
    ELSE s

\* the rank structure, cells and locals with which the Wallace reducer calls
\* ranks_to_adder_chain
implement_compressor_tree_wallace(rs) == Call(WallaceRun, Entry(rs))

FullAdders(cs) == Cardinality({k \in 1 .. Len(cs) : cs[k].kind = "FA"})
HalfAdders(cs) == Cardinality({k \in 1 .. Len(cs) : cs[k].kind = "HA"})

\* the adders of stage stg that took their pins from rank rk
AddersAt(cs, stg, rk) ==
    Cardinality({k \in 1 .. Len(cs) : cs[k].stage = stg /\ cs[k].rank = rk})

----
\* The value of the netlist under an assignment v of 0/1 to the input pins.

Assignments == [1 .. NumInputs -> Bit]

RECURSIVE PinValue(_, _)
PinValue(p, v) ==
    IF p = ZeroPin THEN 0
    ELSE IF p <= NumInputs THEN v[p]
    ELSE LET cell == cells[(p - NumInputs + 1) \div 2]
             x == [k \in 1 .. Len(cell.ins) |-> PinValue(cell.ins[k], v)]
         IN IF cell.kind = "FA"
            THEN IF p = cell.sum THEN FA_sum(x[1], x[2], x[3])
                                 ELSE FA_carry(x[1], x[2], x[3])
            ELSE IF p = cell.sum THEN HA_sum(x[1], x[2])
                                 ELSE HA_carry(x[1], x[2])

\* the input pin slots of the ADD node that were never connected, and the
\* values they may be read as
OpenSlots == {k \in 1 .. Len(add_node.pins) : add_node.pins[k] = Unconnected}
Floats == [OpenSlots -> Bit]

SlotValue(k, v, f) ==
    IF add_node.pins[k] = Unconnected THEN f[k]
    ELSE PinValue(add_node.pins[k], v)

\* the ADD node is a binary adder of two operands of add_node.width bits with
\* add_node.width + 1 output pins
AdderResult(v, f) ==
    SumSeq([k \in 1 .. 2 * add_node.width |->
               SlotValue(k, v, f) * Pow2((k - 1) % add_node.width)])

EntryValue(e, v, f) ==
    IF e.kind = "pin" THEN PinValue(e.idx, v)
    ELSE (AdderResult(v, f) \div Pow2(e.idx)) % 2

\* sum of output[i] * 2^i, the trailing carry-out included
Decoded(v, f) ==
    SumSeq([k \in 1 .. Len(ret) |-> EntryValue(ret[k], v, f) * Pow2(k - 1)])

\* sum over i and s in R[i] of value(s) * 2^i
InputValue(v) ==
    SumSeq([k \in 1 .. Len(input) |->
               SumSeq([j \in 1 .. Len(input[k]) |-> v[input[k][j]]])
                   * Pow2(k - 1)])

----
\* Properties.

ValidType == tree_type \in {"WALLACE", "DADDA"}

\* C1 (value conservation): when the call has returned, for every 0/1
\* assignment to the input pins, and whatever an unconnected ADD input is read
\* as, the decoded output equals the weighted sum of the input pins.
ValueConservation ==
    pc = "done" =>
        \A v \in Assignments : \A f \in Floats : Decoded(v, f) = InputValue(v)

\* C2 (totality): the finisher is entered only with every rank holding at
\* most 2 pins, and with a valid strategy the reduction loop is eventually
\* left for the finisher.
Totality ==
    /\ [](pc = "chain" => \A k \in 1 .. Len(ranks) : Len(ranks[k]) <= 2)
    /\ (ValidType => <>(pc = "chain"))

TotalityWitness ==
    /\ pc = "chain"
    /\ stage >= 3
    /\ MaxHeightOf(ranks) = 2

\* C3 (height convergence): the maximum rank size recomputed by the merge of
\* a stage is strictly smaller than the maximum the stage started with.
StageEnds ==
    /\ pc \in {"wallace_rank", "dadda_rank"}
    /\ pc' \in {"wallace", "dadda"}

HeightConvergence ==
    [][StageEnds => (max_rank_size > 2 /\ max_rank_size' < max_rank_size)]_vars

HeightConvergenceWitness ==
    /\ pc \in {"wallace", "dadda"}
    /\ stage >= 1
    /\ max_rank_size > 2
    /\ max_rank_size = MaxHeightOf(ranks)

\* C4 as stated (gate-count bound): when the Dadda reducer is done it has
\* created at most as many adders, full plus half, as the Wallace reducer
\* creates on the same input.
GateCountBound ==
    (pc = "chain" /\ tree_type = "DADDA") =>
        Len(cells) <= Len(implement_compressor_tree_wallace(input).cells)

\* C4 as amended: when the Dadda reducer is done it has created at most as
\* many full adders as the Wallace reducer creates on the same input.
FullAdderBound ==
    (pc = "chain" /\ tree_type = "DADDA") =>
        FullAdders(cells)
            <= FullAdders(implement_compressor_tree_wallace(input).cells)

FullAdderBoundWitness ==
    /\ pc = "chain"
    /\ tree_type = "DADDA"
    /\ FullAdders(cells) >= 2
    /\ Len(cells) > Len(implement_compressor_tree_wallace(input).cells)

\* C5 (scenario B): rank 0 holds 5 pins and every other rank is empty; the
\* Wallace reducer takes 2 or 3 stages and, with all five inputs 1, the
\* decoded output is 5.
ScenarioBInput ==
    /\ Len(input) >= 1
    /\ Len(input[1]) = 5
    /\ \A k \in 2 .. Len(input) : Len(input[k]) = 0

ScenarioB ==
    (pc = "done" /\ tree_type = "WALLACE" /\ ScenarioBInput) =>
        /\ stage \in {2, 3}
        /\ \A f \in Floats : Decoded([p \in 1 .. 5 |-> 1], f) = 5

\* C6 (output length): the finisher returns one entry per rank, plus one
\* trailing entry, the carry-out of the ADD node, exactly if it made an ADD
\* node, which it does exactly if some rank holds more than 1 pin; without
\* such a rank each entry is the rank's single pin or the zero pin.
SomeRankAbove1 == \E k \in 1 .. Len(ranks) : Len(ranks[k]) > 1

OutputLengthStep ==
    /\ (add_list' = add_list + 1) = SomeRankAbove1
    /\ (add_list' = add_list) = ~SomeRankAbove1
    /\ makingAdderChain' = SomeRankAbove1
    /\ Len(ret') = Len(ranks) + (IF SomeRankAbove1 THEN 1 ELSE 0)
    /\ SomeRankAbove1 =>
           /\ ret'[Len(ret')] = AddEntry(add_node'.width)
           /\ \A k \in 1 .. Len(ranks) : ret'[k] # ret'[Len(ret')]
    /\ ~SomeRankAbove1 =>
           \A k \in 1 .. Len(ranks) :
               ret'[k] = IF Len(ranks[k]) = 1 THEN PinEntry(ranks[k][1])
                                              ELSE PinEntry(ZeroPin)

OutputLength == [][(pc = "chain" /\ pc' = "done") => OutputLengthStep]_vars

OutputLengthWitness ==
    /\ pc = "done"
    /\ stage >= 1
    /\ makingAdderChain
    /\ Len(ret) = Len(ranks) + 1
    /\ Len(ranks) > Len(input)

\* C7 (idempotence of reduction): if every rank of the input holds at most 2
\* pins, the reducer hands the rank structure to the finisher unchanged and
\* has created no full and no half adder.
Idempotence ==
    (pc = "chain" /\ MaxHeightOf(input) <= 2) =>
        /\ cells = <<>>
        /\ stage = 0
        /\ ranks = input

IdempotenceWitness ==
    /\ pc = "chain"
    /\ tree_type = "DADDA"
    /\ Len(input) = MaxRanks
    /\ \A k \in 1 .. Len(input) : Len(input[k]) = 2

\* C8 (strategy dispatch): an unrecognized tag leads from the call to the
\* fatal error and nowhere else, with no cell, no ADD node and no output; a
\* valid tag never leads to the fatal error, runs the matching reducer only,
\* and the finisher runs after the reducer and before the return.
DispatchInv ==
    /\ ~ValidType =>
           /\ pc \in {"call", "fatal"}
           /\ cells = <<>> /\ add_list = 0 /\ add_node = NoNode /\ ret = <<>>
    /\ tree_type = "WALLACE" =>
           pc \in {"call", "wallace", "wallace_rank", "chain", "done"}
    /\ tree_type = "DADDA" =>
           pc \in {"call", "dadda", "dadda_rank", "chain", "done"}

DispatchStep ==
    /\ (pc = "call" /\ ~ValidType) => pc' = "fatal"
    /\ (pc = "call" /\ tree_type = "WALLACE") => pc' = "wallace"
    /\ (pc = "call" /\ tree_type = "DADDA") => pc' = "dadda"
    /\ (pc # "chain" /\ pc' = "chain") => pc \in {"wallace", "dadda"}
    /\ (pc # "done" /\ pc' = "done") => pc = "chain"
    /\ pc \in {"done", "fatal"} => pc' = pc

Dispatch == []DispatchInv /\ [][DispatchStep]_vars

DispatchWitness == pc = "fatal" /\ Len(input) = MaxRanks

\* C9 (Dadda carry-in tracking): when rank i of a Dadda stage is about to be
\* processed, last_carry_count is the number of adders the stage applied at
\* rank i-1 (0 for rank 0); and a rank whose size plus that number is at most
\* d receives no adder.
ArrivingCarries == IF i = 0 THEN 0 ELSE AddersAt(cells, stage, i - 1)

CarryInInv ==
    (pc = "dadda_rank" /\ i < cur_ranks_size) =>
        last_carry_count = ArrivingCarries

CarryInStep ==
    (/\ pc = "dadda_rank"
     /\ i < cur_ranks_size
     /\ Len(ranks[i + 1]) + ArrivingCarries <= d) => cells' = cells

CarryInTracking == []CarryInInv /\ [][CarryInStep]_vars

\* C10 (Dadda height bound): after the merge of a Dadda stage run with
\* threshold d, every rank holds at most d pins.
DaddaHeightBound ==
    [][(pc = "dadda_rank" /\ pc' = "dadda") =>
           \A k \in 1 .. Len(ranks') : Len(ranks'[k]) <= d]_vars

DaddaHeightBoundWitness ==
    /\ pc = "dadda"
    /\ stage >= 2
    /\ d = 2
    /\ MaxHeightOf(ranks) = 2
    /\ Len(cells) >= 3

\* C11 (Wallace stage goal): a Wallace stage starts with maximum M > 2 and
\* computes target = floor(M/3)*2 + (M mod 3); after its merge every rank
\* holds at most target pins, and so does the recomputed maximum.
TargetOf(m) == (m \div 3) * 2 + (m % 3)

WallaceStageGoalStep ==
    /\ max_rank_size > 2
    /\ target_rank_size = TargetOf(max_rank_size)
    /\ max_rank_size' <= target_rank_size
    /\ \A k \in 1 .. Len(ranks') : Len(ranks'[k]) <= target_rank_size

WallaceStageGoal ==
    [][(pc = "wallace_rank" /\ pc' = "wallace") => WallaceStageGoalStep]_vars

\* a later stage has ended with its maximum exactly at the target, and one of
\* its half adders was not at the first reducible rank
WallaceStageGoalWitness ==
    /\ pc = "wallace"
    /\ stage >= 2
    /\ max_rank_size = target_rank_size
    /\ \E k \in 1 .. Len(cells) :
           /\ cells[k].kind = "HA"
           /\ cells[k].stage = stage
           /\ \E j \in 1 .. (k - 1) : cells[j].stage = stage

\* C12 (every signal is used exactly once): a signal is an input pin or the
\* sum or carry pin of a full or half adder. At every point of the call each
\* signal is in exactly one place: waiting in a rank, waiting in a new row,
\* an input of one adder cell, an input of the ADD node, or an entry of the
\* output list. When the finisher has returned, all ranks are empty, so each
\* signal is an input of exactly one cell or exactly one output entry.
Signals == 1 .. (NumInputs + 2 * Len(cells))

CountIn(q, p) == Cardinality({j \in 1 .. Len(q) : q[j] = p})

CellUses(p) == SumSeq([k \in 1 .. Len(cells) |-> CountIn(cells[k].ins, p)])
AddUses(p) == CountIn(add_node.pins, p)
OutUses(p) == CountIn(ret, PinEntry(p))
Waiting(p) ==
    SumSeq([k \in 1 .. Len(ranks) |-> CountIn(ranks[k], p)])
        + SumSeq([k \in 1 .. Len(temp) |-> CountIn(temp[k], p)])

UsedExactlyOnce ==
    /\ \A p \in Signals :
           Waiting(p) + CellUses(p) + AddUses(p) + OutUses(p) = 1
    /\ pc = "done" =>
           /\ \A k \in 1 .. Len(ranks) : ranks[k] = <<>>
           /\ \A p \in Signals : CellUses(p) + AddUses(p) + OutUses(p) = 1

\* the call has returned with full and half adders made, a signal of an
\* adder promoted to the output below the ADD node, and an ADD bit position
\* with two signals
UsedExactlyOnceWitness ==
    /\ pc = "done"
    /\ FullAdders(cells) >= 1
    /\ HalfAdders(cells) >= 1
    /\ \E p \in Signals : p > NumInputs /\ OutUses(p) = 1
    /\ \E k \in 1 .. add_node.width :
           /\ add_node.pins[k] > NumInputs
           /\ add_node.pins[add_node.width + k] > ZeroPin

\* C13 (carry-chain geometry): the finisher makes at most one ADD node, and
\* makes it exactly if some rank holds more than 1 pin; bit position 0 of the
\* node is the lowest such rank, whose pins are its operands there; the
\* operand width is the number of ranks minus that index; and every rank
\* below that index puts its single pin, or the zero pin if it is empty,
\* into the output itself and nothing into the ADD node.
FirstAbove1 ==
    CHOOSE k \in 1 .. Len(ranks) :
        /\ Len(ranks[k]) > 1
        /\ \A j \in 1 .. (k - 1) : Len(ranks[j]) <= 1

DirectEntry(r) == IF Len(r) = 1 THEN PinEntry(r[1]) ELSE PinEntry(ZeroPin)

CarryChainGeometryStep ==
    /\ add_list' - add_list \in {0, 1}
    /\ (add_list' - add_list = 1) <=> SomeRankAbove1
    /\ ~SomeRankAbove1 => add_node' = NoNode
    /\ SomeRankAbove1 =>
           LET start == FirstAbove1 - 1
               w == Len(ranks) - start
               r == ranks[start + 1]
           IN /\ adder_start_i' = start
              /\ adder_input_size' = w
              /\ add_node'.width = w
              /\ Len(add_node'.pins) = 2 * w
              /\ add_node'.pins[1] = r[Len(r)]
              /\ add_node'.pins[w + 1] = r[Len(r) - 1]
              /\ ret'[start + 1] = AddEntry(0)
              /\ \A k \in 1 .. start :
                     /\ ret'[k] = DirectEntry(ranks[k])
                     /\ \A j \in 1 .. Len(ranks[k]) :
                            CountIn(add_node'.pins, ranks[k][j]) = 0

CarryChainGeometry ==
    [][(pc = "chain" /\ pc' = "done") => CarryChainGeometryStep]_vars

\* the ADD node starts at rank 2, below an empty rank and a rank of one pin,
\* and spans at least 2 ranks
CarryChainGeometryWitness ==
    /\ pc = "done"
    /\ add_list = 1
    /\ adder_start_i = 2
    /\ add_node.width >= 2
    /\ ret[1] = PinEntry(ZeroPin)
    /\ ret[2].kind = "pin" /\ ret[2].idx > ZeroPin
    /\ stage >= 1

\* C14 (carry-chain coverage): when the finisher makes the ADD node at rank
\* start, every rank k >= start, holding 2, 1 or 0 pins, has its pins as the
\* operands of bit position k - start, the zero pin standing in for each
\* missing operand, and its output entry is the sum bit k - start of the
\* node; the trailing output entry is the node's bit at position width.
OperandsOf(r) ==
    IF Len(r) >= 2 THEN <<r[Len(r)], r[Len(r) - 1]>>
    ELSE IF Len(r) = 1 THEN <<r[1], ZeroPin>>
    ELSE <<ZeroPin, ZeroPin>>

CoveredAt(k, start, w) ==
    /\ {add_node'.pins[k - start], add_node'.pins[w + k - start]}
           = {OperandsOf(ranks[k])[1], OperandsOf(ranks[k])[2]}
    /\ ret'[k] = AddEntry(k - start - 1)

CarryChainCoverageStep ==
    SomeRankAbove1 =>
        LET start == FirstAbove1 - 1
            w == Len(ranks) - start
        IN /\ \A k \in (start + 1) .. Len(ranks) : CoveredAt(k, start, w)
           /\ ret'[Len(ranks) + 1] = AddEntry(w)

CarryChainCoverage ==
    [][(pc = "chain" /\ pc' = "done") => CarryChainCoverageStep]_vars

\* C15 (stage separation): in both reducers the sum and carry pins made in
\* a stage wait in the new rows until every rank of the stage is processed,
\* so no adder has an input made in its own stage; the adders of a rank take
\* the pins that are last in the rank, one after the other from the back;
\* and the merge appends the sum of an adder at rank i to rank i and its
\* carry to rank i+1, a new top rank if i was the top, and to no other rank.
InRankLoop == pc \in {"wallace_rank", "dadda_rank"}

\* the stage in which signal p was made; 0 for an input pin
StageOfSignal(p) ==
    IF p <= NumInputs THEN 0 ELSE cells[(p - NumInputs + 1) \div 2].stage

StageSeparationInv ==
    /\ \A k \in 1 .. Len(cells) : \A j \in 1 .. Len(cells[k].ins) :
           StageOfSignal(cells[k].ins[j]) < cells[k].stage
    /\ InRankLoop =>
           /\ \A k \in 1 .. Len(ranks) : \A j \in 1 .. Len(ranks[k]) :
                  StageOfSignal(ranks[k][j]) < stage
           /\ \A k \in 1 .. Len(temp) : \A j \in 1 .. Len(temp[k]) :
                  StageOfSignal(temp[k][j]) = stage
    /\ ~InRankLoop => temp = <<>>

\* the number of pins the cells from..to of cs take
PinsTaken(cs, from, to) ==
    SumSeq([k \in 1 .. (to - from + 1) |-> Len(cs[from + k - 1].ins)])

TakesLastStep ==
    LET r == ranks[i + 1]
        first == Len(cells) + 1
    IN /\ \A k \in first .. Len(cells') :
              /\ cells'[k].stage = stage
              /\ cells'[k].rank = i
              /\ \A j \in 1 .. Len(cells'[k].ins) :
                     cells'[k].ins[j]
                         = r[Len(r) - PinsTaken(cells', first, k - 1) - j + 1]
       /\ ranks'[i + 1]
              = SubSeq(r, 1, Len(r) - PinsTaken(cells', first, Len(cells')))
       /\ \A k \in 1 .. Len(ranks) : k # i + 1 => ranks'[k] = ranks[k]
       /\ SubSeq(cells', 1, Len(cells)) = cells

MergeStep ==
    /\ cells' = cells
    /\ Len(ranks') >= Len(ranks)
    /\ \A k \in 1 .. Len(ranks') :
           ranks'[k] = (IF k <= Len(ranks) THEN ranks[k] ELSE <<>>)
                           \o (IF k <= Len(temp) THEN temp[k] ELSE <<>>)
    /\ \A c \in 1 .. Len(cells) : cells[c].stage = stage =>
           \A k \in 1 .. Len(ranks') :
               /\ CountIn(ranks'[k], cells[c].sum)
                      = (IF k = cells[c].rank + 1 THEN 1 ELSE 0)
               /\ CountIn(ranks'[k], cells[c].carry)
                      = (IF k = cells[c].rank + 2 THEN 1 ELSE 0)

StageSeparationStep ==
    /\ (InRankLoop /\ pc' = pc) => TakesLastStep
    /\ (InRankLoop /\ pc' # pc) => MergeStep

StageSeparation == []StageSeparationInv /\ [][StageSeparationStep]_vars

\* a second or later stage has been merged: one of its adders took a signal
\* of an earlier stage, one of its ranks got two adders, and a carry has
\* made a new top rank
StageSeparationWitness ==
    /\ pc \in {"wallace", "dadda"}
    /\ stage >= 2
    /\ Len(ranks) > Len(input)
    /\ \E k \in 1 .. Len(cells) :
           /\ cells[k].stage = stage
           /\ \E j \in 1 .. Len(cells[k].ins) : cells[k].ins[j] > NumInputs
    /\ \E k \in 2 .. Len(cells) :
           /\ cells[k].stage = cells[k - 1].stage
           /\ cells[k].rank = cells[k - 1].rank
    /\ \E k \in 1 .. Len(cells) : cells[k].rank = Len(input) - 1

\* C16 (Dadda never allocates an unused carry row): in a Dadda stage a rank
\* whose size plus last_carry_count exceeds d gets at least one full or half
\* adder; so when the stage is merged, a carry row allocated above the top
\* rank holds at least one carry, every row read by the merge has its rank,
\* and no ranks[i] is ever read with i >= ranks.size().
NotPassedThrough ==
    /\ pc = "dadda_rank"
    /\ i < cur_ranks_size
    /\ Len(ranks[i + 1]) + last_carry_count > d

DaddaCarryRowStep ==
    /\ NotPassedThrough =>
           /\ AddersAt(cells', stage, i) >= 1
           /\ Len(temp') = i + 2
           /\ temp'[i + 2] # <<>>
    /\ (pc = "dadda_rank" /\ pc' = "dadda") =>
           /\ Len(temp) > Len(ranks) => temp[Len(temp)] # <<>>
           /\ Len(ranks') >= new_ranks_size
           /\ ~oob_read'

DaddaCarryRow == [](~oob_read) /\ [][DaddaCarryRowStep]_vars

\* a second or later Dadda stage has been merged in which the top rank got
\* an adder, and its carry has made a new top rank
DaddaCarryRowWitness ==
    /\ pc = "dadda"
    /\ stage >= 2
    /\ Len(ranks) > Len(input)
    /\ AddersAt(cells, stage, Len(ranks) - 2) >= 1
    /\ Len(ranks[Len(ranks)]) = AddersAt(cells, stage, Len(ranks) - 2)

====
